---- MODULE Spec2Model ----
(***************************************************************************)
(* Model of the lassim optimization pipeline: the pruning driver           *)
(* BaseOptimization.solve, the iteration function of customs/core_functions *)
(* and the edge-removal function remove_lowest_reaction in its core and     *)
(* peripherals variants.                                                    *)
(*                                                                          *)
(* Sequences are 1-based here and 0-based in the source: slot k of a numpy  *)
(* vector is element k + 1 of the sequence that models it.                  *)
(***************************************************************************)
EXTENDS Integers, Sequences, FiniteSets, TLC

\* ------------------------------------------------------------------ bounds
\* largest number of edges of a starting reaction map of solve
MaxEdges == 2
\* opt_args.num_islands
NumIslands == 2
\* opt_args.num_individuals
NumIndividuals == 2
\* largest number of regulators a map given to remove_lowest_reaction holds
MaxPureEdges == 3

\* ids of the transcription factors of the core: CoreSystem numbers them 0, 1
Nodes == {0, 1}
NumNodes == Cardinality(Nodes)
\* values an island may leave in a lambda or vmax slot (inside [0, 20])
Rates == {3}
\* values an island may leave in an edge slot (inside [-20, 20])
Weights == {-2, 1}
\* fitness values an island may report
Costs == {1, 2}
\* values of the slots of a vector given directly to remove_lowest_reaction
PureRates == {0, 7}
PureWeights == {-2, -1, 1, 2}
\* gene ids used as keys of a peripherals reaction map
GeneIds == {11, 44}

VARIABLES
    pc,            \* position of the run: solve, then the caller's final call
    iterate,       \* BaseOptimization._iterate is set (not None)
    start,         \* [problem, reactions]: _start_problem, _start_reactions
    statics,       \* class-level state of CoreProblem (_s_dim, _s_bounds, _s_map_tuple)
    prob,          \* solve: prob
    reactions,     \* solve: reactions
    archi,         \* _generate_solution: archi, one entry per island
    ranked,        \* _generate_solution: solutions (the SortedList of the round)
    solution,      \* solve: solution
    solutions,     \* solve: solutions (the SortedList returned)
    iteration,     \* solve: iteration
    round,         \* history: number of the round solve is in (1 = start problem)
    handled,       \* argument of the last call of self._handler.handle_solutions
    handlerCalls,  \* number of calls of self._handler.handle_solutions
    failed,        \* position at which an exception was raised, or "no"
    bestFile,      \* solutions serialized into best_solutions.csv
    finalCalls,    \* number of calls of final_handler.handle_solutions
    roundBest,     \* history: what _generate_solution returned, in round order
    determined,    \* history: first element of every ranked list built
    pure,          \* one direct call of remove_lowest_reaction: input and result
    mem,           \* the problem copies of the islands and their scratch buffers
    call           \* one direct call of another function: input and result

vars == <<pc, iterate, start, statics, prob, reactions, archi, ranked, solution,
          solutions, iteration, round, handled, handlerCalls, failed, bestFile,
          finalCalls, roundBest, determined, pure, mem, call>>

driverVars == <<pc, iterate, start, statics, prob, reactions, archi, ranked,
                solution, solutions, iteration, round, handled, handlerCalls, failed,
                bestFile, finalCalls, roundBest, determined>>

\* ----------------------------------------------------------------- helpers
None == [none |-> TRUE]

Abs(x) == IF x < 0 THEN -x ELSE x

Min(a, b) == IF a < b THEN a ELSE b

\* the elements of a SortedSet (or the keys of a SortedDict), ascending
RECURSIVE SortedSeq(_)
SortedSeq(S) ==
    IF S = {} THEN <<>>
    ELSE LET m == CHOOSE x \in S : \A y \in S : x <= y
         IN  <<m>> \o SortedSeq(S \ {m})

\* np.delete that leaves the vector as it is
DeleteKeep(s, p) == s

\* sequence s without its element at 1-based position p
DeleteAt(s, p) == SubSeq(s, 1, p - 1) \o SubSeq(s, p + 1, Len(s))

\* len([val for r_set in reactions.values() for val in r_set])
EdgeCount(R) ==
    Cardinality({e \in (DOMAIN R) \X (UNION {R[k] : k \in DOMAIN R}) :
                    e[2] \in R[e[1]]})

\* the edges <<key, regulator>> of R, keys ascending, regulators ascending
RECURSIVE EdgesOfKeys(_, _)
EdgesOfKeys(R, keys) ==
    IF keys = <<>> THEN <<>>
    ELSE LET regs == SortedSeq(R[Head(keys)])
         IN  [j \in 1..Len(regs) |-> <<Head(keys), regs[j]>>]
                 \o EdgesOfKeys(R, Tail(keys))

EdgeSeq(R) == EdgesOfKeys(R, SortedSeq(DOMAIN R))

\* ------------------------------------------------- remove_lowest_reaction
\* numpy.absolute over a vector
np_absolute(s) == [i \in 1..Len(s) |-> Abs(s[i])]

\* numpy.argmin: 0-based index of the first occurrence of the minimum,
\* scanning s from position i with best the index of the minimum so far
RECURSIVE ArgMinScan(_, _, _)
ArgMinScan(s, i, best) ==
    IF i > Len(s) THEN best - 1
    ELSE ArgMinScan(s, i + 1, IF s[i] < s[best] THEN i ELSE best)

np_argminLast(s) ==
    (CHOOSE i \in 1..Len(s) :
        /\ \A j \in 1..Len(s) : s[i] <= s[j]
        /\ \A j \in (i + 1)..Len(s) : s[j] > s[i]) - 1

np_argmin(s) == ArgMinScan(s, 2, 1)

\* reactions[key].pop(index): the SortedSet without its index-th element
SortedSetPop(S, index) == S \ {SortedSeq(S)[index + 1]}

\* what the caller's map holds after the call: the function works on
\* deepcopy(reactions), so the caller's object keeps its value
CallerMapAliased(R, Rnew) == Rnew

CallerMapAfter(R, Rnew) == R

\* core_functions.remove_lowest_reaction, the loop over range(0, tfacts_num)
RECURSIVE CoreRemoveLoop(_, _, _, _, _, _)
CoreRemoveLoop(vres, R, tfacts_num, min_index, i, count) ==
    IF i >= tfacts_num
    THEN [ok |-> FALSE, error |-> "IndexError"]
    ELSE LET count2 == count + Cardinality(R[i])
         IN  IF count2 > min_index
             THEN LET index == min_index - count2 + Cardinality(R[i])
                  IN  [ok |-> TRUE,
                       v |-> DeleteAt(vres, min_index + tfacts_num * 2 + 1),
                       r |-> [R EXCEPT ![i] = SortedSetPop(R[i], index)]]
             ELSE CoreRemoveLoop(vres, R, tfacts_num, min_index, i + 1, count2)

core_remove_lowest_reaction(vres, R) ==
    LET tfacts_num == Cardinality(DOMAIN R)
        k_values == SubSeq(vres, tfacts_num * 2 + 1, Len(vres))
        abs_k == np_absolute(k_values)
    IN  IF Len(k_values) = 0
        THEN [ok |-> FALSE, error |-> "ValueError"]
        ELSE CoreRemoveLoop(vres, R, tfacts_num, np_argmin(abs_k), 0, 0)

\* peripherals_functions.remove_lowest_reaction, the loop over the items of
\* the SortedDict (keys ascending)
RECURSIVE PeripheralsRemoveLoop(_, _, _, _, _, _)
PeripheralsRemoveLoop(solution_vector, R, num_genes, min_index, keys, count) ==
    IF keys = <<>>
    THEN [ok |-> FALSE, error |-> "IndexError"]
    ELSE LET key == Head(keys)
         IN  IF (min_index - count) < Cardinality(R[key])
             THEN [ok |-> TRUE,
                   v |-> DeleteAt(solution_vector, min_index + 2 * num_genes + 1),
                   r |-> [R EXCEPT ![key] = SortedSetPop(R[key], min_index - count)]]
             ELSE PeripheralsRemoveLoop(solution_vector, R, num_genes, min_index,
                                        Tail(keys), count + Cardinality(R[key]))

peripherals_remove_lowest_reaction(solution_vector, R) ==
    LET num_genes == Cardinality(DOMAIN R)
        absolute_k == np_absolute(SubSeq(solution_vector, num_genes * 2 + 1,
                                         Len(solution_vector)))
    IN  IF Len(absolute_k) = 0
        THEN [ok |-> FALSE, error |-> "ValueError"]
        ELSE PeripheralsRemoveLoop(solution_vector, R, num_genes,
                                   np_argmin(absolute_k),
                                   SortedSeq(DOMAIN R), 0)

\* generate_reactions_vector with rows and columns exchanged
GenerateTransposed(R) ==
    LET keys == SortedSeq(DOMAIN R)
        num_tfacts == Len(keys)
        np_reacts == [p \in 1..(num_tfacts * num_tfacts) |->
                        IF ((p - 1) \div num_tfacts)
                               \in R[keys[((p - 1) % num_tfacts) + 1]]
                        THEN -1 ELSE 0]
    IN  <<np_reacts, [p \in 1..Len(np_reacts) |-> np_reacts[p] < 0]>>

\* ------------------------------------------------ problems and solutions
\* core_functions.generate_reactions_vector: one row of n slots per key (keys
\* ascending), -1 where the regulator is present, and the mask np_reacts < 0
generate_reactions_vector(R) ==
    LET keys == SortedSeq(DOMAIN R)
        num_tfacts == Len(keys)
        np_reacts == [p \in 1..(num_tfacts * num_tfacts) |->
                        IF ((p - 1) % num_tfacts) \in R[keys[((p - 1) \div num_tfacts) + 1]]
                        THEN -1 ELSE 0]
    IN  <<np_reacts, [p \in 1..Len(np_reacts) |-> np_reacts[p] < 0]>>

\* react_mask[react_mask].size
MaskSizeAll(mask) == Len(mask)

MaskSize(mask) == Cardinality({p \in 1..Len(mask) : mask[p]})

\* core_functions.default_bounds
default_bounds(num_tfacts, num_react) ==
    <<[i \in 1..(num_tfacts * 2 + num_react) |->
          IF i <= num_tfacts * 2 THEN 0 ELSE -20],
      [i \in 1..(num_tfacts * 2 + num_react) |-> 20]>>

\* CoreProblem.__init__: the instance reads the class-level state st
CoreProblem(st, known_sol) ==
    IF Len(st.map_tuple[1]) # Len(st.map_tuple[2])
       \/ Len(st.bounds[1]) # st.dim \/ Len(st.bounds[2]) # st.dim
    THEN [ok |-> FALSE, error |-> "ValueError"]
    ELSE [ok |-> TRUE,
          dimension |-> st.dim,
          lb |-> st.bounds[1],
          ub |-> st.bounds[2],
          vector_map |-> st.map_tuple[1],
          vector_map_mask |-> st.map_tuple[2],
          best_x |-> known_sol]

\* CoreProblemFactory.build: writes the class-level state, then constructs
build(dim, bounds, vector_map, known_sol) ==
    LET st == [dim |-> dim, bounds |-> bounds, map_tuple |-> vector_map]
    IN  [statics |-> st, problem |-> CoreProblem(st, known_sol)]

\* BaseSolution.__init__ and LassimSolution.__init__
LassimSolution(champ, react_ids, problem) ==
    [x |-> champ.x,
     cost |-> champ.f[1],
     reactions_ids |-> react_ids,
     react_vect |-> problem.vector_map,
     react_mask |-> problem.vector_map_mask]

\* SortedList.add with BaseSolution.__lt__: s goes after the elements whose
\* cost is not greater than its own
SortedListAppend(L, s) == Append(L, s)

SortedListAdd(L, s) ==
    LET k == Cardinality({i \in 1..Len(L) : ~(s.cost < L[i].cost)})
    IN  SubSeq(L, 1, k) \o <<s>> \o SubSeq(L, k + 1, Len(L))

\* SortedList(iterable)
SortedListUnsorted(items) == items

RECURSIVE SortedList(_)
SortedList(items) ==
    IF items = <<>> THEN <<>>
    ELSE SortedListAdd(SortedList(SubSeq(items, 1, Len(items) - 1)),
                       items[Len(items)])

\* iter_function deciding from the reactions map instead of the mask
IterFromMap(statics0, sol) ==
    IF EdgeCount(sol.reactions_ids) > 0
    THEN LET removed == core_remove_lowest_reaction(sol.x, sol.reactions_ids)
         IN  IF ~removed.ok
             THEN [ok |-> FALSE, error |-> removed.error]
             ELSE LET vm == generate_reactions_vector(removed.r)
                      n == Cardinality(DOMAIN removed.r)
                      built == build(n * 2 + MaskSize(vm[2]),
                                     default_bounds(n, MaskSize(vm[2])),
                                     vm, <<removed.v>>)
                  IN  [ok |-> TRUE, do_iteration |-> TRUE,
                       statics |-> built.statics,
                       problem |-> built.problem, reactions |-> removed.r]
    ELSE [ok |-> TRUE, do_iteration |-> FALSE, statics |-> statics0,
          problem |-> None, reactions |-> None]

\* core_functions.iter_function
IterNoRemoval(statics0, sol) ==
    [ok |-> TRUE, do_iteration |-> FALSE, statics |-> statics0,
     problem |-> None, reactions |-> None]

IterStopAtLastEdge(statics0, sol) ==
    IF MaskSize(sol.react_mask) > 1
    THEN LET removed == core_remove_lowest_reaction(sol.x, sol.reactions_ids)
             vm == generate_reactions_vector(removed.r)
             n == Cardinality(DOMAIN removed.r)
             built == build(n * 2 + MaskSize(vm[2]),
                            default_bounds(n, MaskSize(vm[2])),
                            vm, <<removed.v>>)
         IN  [ok |-> TRUE, do_iteration |-> TRUE, statics |-> built.statics,
              problem |-> built.problem, reactions |-> removed.r]
    ELSE [ok |-> TRUE, do_iteration |-> FALSE, statics |-> statics0,
          problem |-> None, reactions |-> None]

iter_function(statics0, sol) ==
    IF MaskSize(sol.react_mask) > 0
    THEN LET removed == core_remove_lowest_reaction(sol.x, sol.reactions_ids)
         IN  IF ~removed.ok
             THEN [ok |-> FALSE, error |-> removed.error]
             ELSE LET vm == generate_reactions_vector(removed.r)
                      num_react == MaskSize(vm[2])
                      n == Cardinality(DOMAIN removed.r)
                      built == build(n * 2 + num_react,
                                     default_bounds(n, num_react),
                                     vm, <<removed.v>>)
                  IN  IF ~built.problem.ok
                      THEN [ok |-> FALSE, error |-> built.problem.error]
                      ELSE [ok |-> TRUE, do_iteration |-> TRUE,
                            statics |-> built.statics,
                            problem |-> built.problem,
                            reactions |-> removed.r]
    ELSE [ok |-> TRUE, do_iteration |-> FALSE, statics |-> statics0,
          problem |-> None, reactions |-> None]

\* SimpleCSVSolutionsHandler.handle_solutions: the solutions appended to the
\* file, the first to_save of the list
csv_handle_first(sols, num_solutions) == SubSeq(sols, 1, Min(Len(sols), 1))

csv_handle_solutions(sols, num_solutions) ==
    LET to_save == IF num_solutions = "inf" THEN Len(sols)
                   ELSE Min(Len(sols), num_solutions)
    IN  SubSeq(sols, 1, to_save)

\* the decision vectors an island can end on: every slot inside its bounds
DecisionVectors(problem) ==
    {x \in [1..problem.dimension -> Rates \cup Weights] :
        \A i \in 1..problem.dimension :
            /\ problem.lb[i] <= x[i] /\ x[i] <= problem.ub[i]
            /\ x[i] \in (IF problem.lb[i] >= 0 THEN Rates ELSE Weights)}

Champions(problem) == [x : DecisionVectors(problem), f : {<<c>> : c \in Costs}]

\* --------------------------------------------------------------- the driver
\* the reaction maps solve may be started on
StartMaps == {R \in [Nodes -> SUBSET Nodes] : EdgeCount(R) <= MaxEdges}

\* core_creation.optimization_setup builds the starting problem of the map R
StartBuild(R) ==
    build(NumNodes * 2 + EdgeCount(R),
          default_bounds(NumNodes, EdgeCount(R)),
          generate_reactions_vector(R), <<>>)

DriverInit ==
    /\ \E R \in StartMaps :
          /\ start = [problem |-> StartBuild(R).problem, reactions |-> R]
          /\ statics = StartBuild(R).statics
    /\ iterate \in BOOLEAN
    /\ pc = "solve"
    /\ prob = None
    /\ reactions = None
    /\ archi = <<>>
    /\ ranked = <<>>
    /\ solution = None
    /\ solutions = <<>>
    /\ iteration = 0
    /\ round = 0
    /\ handled = <<>>
    /\ handlerCalls = 0
    /\ failed = "no"
    /\ bestFile = <<>>
    /\ finalCalls = 0
    /\ roundBest = <<>>
    /\ determined = <<>>

\* solve, lines 116-122: the empty SortedList, iteration = 1, the first call
\* of _generate_solution on the start problem
SolveBegin ==
    /\ pc = "solve"
    /\ solutions' = <<>>
    /\ iteration' = 1
    /\ round' = 1
    /\ prob' = start.problem
    /\ reactions' = start.reactions
    /\ pc' = "generate"
    /\ UNCHANGED <<iterate, start, statics, archi, ranked, solution, handled,
                   handlerCalls, failed, bestFile, finalCalls, roundBest,
                   determined, pure, mem, call>>

\* _generate_archipelago: n_islands - 1 islands, then one more that holds the
\* previous champions of the problem
GenerateArchipelagoExtra ==
    /\ pc = "generate"
    /\ archi' = [i \in 1..NumIslands |-> [seeds |-> <<>>, champ |-> None]]
                \o (IF prob.best_x = <<>> THEN <<>>
                    ELSE <<[seeds |-> SubSeq(prob.best_x, 1,
                                       Min(NumIndividuals, Len(prob.best_x))),
                            champ |-> None]>>)
    /\ pc' = "evolve"
    /\ UNCHANGED <<iterate, start, statics, prob, reactions, ranked, solution,
                   solutions, iteration, round, handled, handlerCalls, failed,
                   bestFile, finalCalls, roundBest, determined, pure, mem, call>>

GenerateArchipelago ==
    /\ pc = "generate"
    /\ archi' = [i \in 1..(NumIslands - 1) |-> [seeds |-> <<>>, champ |-> None]]
                \o <<[seeds |-> SubSeq(prob.best_x, 1,
                                       Min(NumIndividuals, Len(prob.best_x))),
                      champ |-> None]>>
    /\ pc' = "evolve"
    /\ UNCHANGED <<iterate, start, statics, prob, reactions, ranked, solution,
                   solutions, iteration, round, handled, handlerCalls, failed,
                   bestFile, finalCalls, roundBest, determined, pure, mem, call>>

\* archi.evolve: island i runs its generations and ends on a champion
IslandEvolve(i) ==
    /\ pc = "evolve"
    /\ archi[i].champ = None
    /\ \E c \in Champions(prob) : archi' = [archi EXCEPT ![i].champ = c]
    /\ UNCHANGED <<pc, iterate, start, statics, prob, reactions, ranked,
                   solution, solutions, iteration, round, handled, handlerCalls,
                   failed, bestFile, finalCalls, roundBest, determined, pure, mem, call>>

\* archi.join returns when every island has finished
JoinEarly ==
    /\ pc = "evolve"
    /\ \E i \in 1..Len(archi) : archi[i].champ # None
    /\ pc' = "joined"
    /\ UNCHANGED <<iterate, start, statics, prob, reactions, archi, ranked,
                   solution, solutions, iteration, round, handled, handlerCalls,
                   failed, bestFile, finalCalls, roundBest, determined, pure, mem, call>>

Join ==
    /\ pc = "evolve"
    /\ \A i \in 1..Len(archi) : archi[i].champ # None
    /\ pc' = "joined"
    /\ UNCHANGED <<iterate, start, statics, prob, reactions, archi, ranked,
                   solution, solutions, iteration, round, handled, handlerCalls,
                   failed, bestFile, finalCalls, roundBest, determined, pure, mem, call>>

\* _get_solutions: one solution per island, in a SortedList
GetSolutions ==
    /\ pc = "joined"
    /\ ranked' = SortedList([i \in 1..Len(archi) |->
                                LassimSolution(archi[i].champ, reactions, prob)])
    /\ determined' = Append(determined, ranked'[1])
    /\ pc' = "ranked"
    /\ UNCHANGED <<iterate, start, statics, prob, reactions, archi, solution,
                   solutions, iteration, round, handled, handlerCalls, failed,
                   bestFile, finalCalls, roundBest, pure, mem, call>>

\* _generate_solution, line 168: self._handler.handle_solutions(solutions)
HandleSolutionsBestOnly ==
    /\ pc = "ranked"
    /\ handled' = <<ranked[1]>>
    /\ handlerCalls' = handlerCalls + 1
    /\ pc' = "handled"
    /\ UNCHANGED <<iterate, start, statics, prob, reactions, archi, ranked,
                   solution, solutions, iteration, round, failed, bestFile,
                   finalCalls, roundBest, determined, pure, mem, call>>

HandleSolutions ==
    /\ pc = "ranked"
    /\ handled' = ranked
    /\ handlerCalls' = handlerCalls + 1
    /\ pc' = "handled"
    /\ UNCHANGED <<iterate, start, statics, prob, reactions, archi, ranked,
                   solution, solutions, iteration, round, failed, bestFile,
                   finalCalls, roundBest, determined, pure, mem, call>>

\* _generate_solution returns solutions[0]; solve adds it to its SortedList
\* and logs the iteration (lines 123-124 and 135-139)
ReturnBest ==
    /\ pc = "handled"
    /\ solution' = ranked[1]
    /\ solutions' = SortedListAdd(solutions, ranked[1])
    /\ iteration' = IF round = 1 THEN iteration ELSE iteration + 1
    /\ roundBest' = Append(roundBest, ranked[1])
    /\ archi' = <<>>
    /\ ranked' = <<>>
    /\ handled' = <<>>
    /\ pc' = IF iterate THEN "iterate" ELSE "returned"
    /\ UNCHANGED <<iterate, start, statics, prob, reactions, round,
                   handlerCalls, failed, bestFile, finalCalls, determined, pure, mem, call>>

\* self._iterate(self._prob_factory, solution) answers do_iteration = True
IterateContinue ==
    /\ pc = "iterate"
    /\ LET it == iter_function(statics, solution)
       IN  /\ it.ok
           /\ it.do_iteration
           /\ prob' = it.problem
           /\ reactions' = it.reactions
           /\ statics' = it.statics
    /\ round' = round + 1
    /\ pc' = "generate"
    /\ UNCHANGED <<iterate, start, archi, ranked, solution, solutions,
                   iteration, handled, handlerCalls, failed, bestFile,
                   finalCalls, roundBest, determined, pure, mem, call>>

\* self._iterate answers do_iteration = False: the loop ends, solve returns
IterateStop ==
    /\ pc = "iterate"
    /\ LET it == iter_function(statics, solution)
       IN  /\ it.ok
           /\ ~it.do_iteration
           /\ prob' = it.problem
           /\ reactions' = it.reactions
           /\ statics' = it.statics
    /\ pc' = "returned"
    /\ UNCHANGED <<iterate, start, archi, ranked, solution, solutions,
                   iteration, round, handled, handlerCalls, failed, bestFile,
                   finalCalls, roundBest, determined, pure, mem, call>>

\* a step of the round raises: the except clause logs it and the finally
\* clause returns solutions (lines 147-151)
RaisePoints == {"generate", "evolve", "joined", "ranked", "iterate"}

RaiseAndRetry ==
    /\ pc \in RaisePoints
    /\ failed' = pc
    /\ archi' = <<>>
    /\ ranked' = <<>>
    /\ handled' = <<>>
    /\ pc' = IF failed = "no" /\ pc # "iterate" THEN "generate" ELSE "returned"
    /\ UNCHANGED <<iterate, start, statics, prob, reactions, solution,
                   solutions, iteration, round, handlerCalls, bestFile,
                   finalCalls, roundBest, determined, pure, mem, call>>

Raise ==
    /\ pc \in RaisePoints
    /\ failed' = pc
    /\ archi' = <<>>
    /\ ranked' = <<>>
    /\ handled' = <<>>
    /\ pc' = "returned"
    /\ UNCHANGED <<iterate, start, statics, prob, reactions, solution,
                   solutions, iteration, round, handlerCalls, bestFile,
                   finalCalls, roundBest, determined, pure, mem, call>>

\* lassim_core, lines 128-129: the final handler, num_solutions = inf, is
\* given the list solve returned and the name best_solutions.csv
FinalHandler ==
    /\ pc = "returned"
    /\ bestFile' = bestFile \o csv_handle_solutions(solutions, "inf")
    /\ finalCalls' = finalCalls + 1
    /\ pc' = "done"
    /\ UNCHANGED <<iterate, start, statics, prob, reactions, archi, ranked,
                   solution, solutions, iteration, round, handled, handlerCalls,
                   failed, roundBest, determined, pure, mem, call>>

\* ------------------------------------- direct calls of remove_lowest_reaction
\* all sequences of length n over S
SeqsOfLen(S, n) == [1..n -> S]

\* the value of `pure` while solve is the program that runs
PureParked == [variant |-> "none", called |-> FALSE]

\* the value of `mem` while no archipelago of problem copies is followed
MemParked == [parked |-> TRUE]

\* the value of `call` while no other function is called directly
CallParked == [fn |-> "none"]

\* the reaction maps over the keys K with regulators among Nodes
PureMaps(K) == {R \in [K -> SUBSET Nodes] : EdgeCount(R) <= MaxPureEdges}

\* the vectors handed over with map R: [lambdas, vmaxs, one k per edge], and
\* vectors that hold one slot more than R has edges
PureVectors(R) ==
    LET n == Cardinality(DOMAIN R)
        e == EdgeCount(R)
    IN  {p \o w : p \in SeqsOfLen(PureRates, 2 * n),
                  w \in SeqsOfLen(PureWeights, e) \cup SeqsOfLen({1, 2}, e + 1)}

PureCalls(variant, K) ==
    UNION {{[variant |-> variant, v |-> v, given |-> R, r |-> R,
             called |-> FALSE, res |-> None] : v \in PureVectors(R)} :
           R \in PureMaps(K)}

PureInit ==
    /\ pure \in PureCalls("core", Nodes) \cup PureCalls("peripherals", GeneIds)
    /\ mem = MemParked
    /\ call = CallParked
    /\ pc = "parked"
    /\ iterate = FALSE
    /\ start = None
    /\ statics = None
    /\ prob = None
    /\ reactions = None
    /\ archi = <<>>
    /\ ranked = <<>>
    /\ solution = None
    /\ solutions = <<>>
    /\ iteration = 0
    /\ round = 0
    /\ handled = <<>>
    /\ handlerCalls = 0
    /\ failed = "no"
    /\ bestFile = <<>>
    /\ finalCalls = 0
    /\ roundBest = <<>>
    /\ determined = <<>>

\* remove_lowest_reaction(vres, reactions) of customs/core_functions
CallCore ==
    /\ pure.variant = "core"
    /\ ~pure.called
    /\ LET res == core_remove_lowest_reaction(pure.v, pure.r)
       IN  pure' = [pure EXCEPT
                      !.called = TRUE,
                      !.res = res,
                      !.r = IF res.ok THEN CallerMapAfter(pure.r, res.r) ELSE @]
    /\ UNCHANGED <<driverVars, mem, call>>

\* remove_lowest_reaction(solution_vector, reactions) of
\* customs/peripherals_functions
CallPeripherals ==
    /\ pure.variant = "peripherals"
    /\ ~pure.called
    /\ LET res == peripherals_remove_lowest_reaction(pure.v, pure.r)
       IN  pure' = [pure EXCEPT
                      !.called = TRUE,
                      !.res = res,
                      !.r = IF res.ok THEN CallerMapAfter(pure.r, res.r) ELSE @]
    /\ UNCHANGED <<driverVars, mem, call>>

\* ------------------------------------------------------------ specifications
Init == DriverInit /\ pure = PureParked /\ mem = MemParked /\ call = CallParked

Next ==
    \/ SolveBegin
    \/ GenerateArchipelago
    \/ \E i \in 1..NumIslands : IslandEvolve(i)
    \/ Join
    \/ GetSolutions
    \/ HandleSolutions
    \/ ReturnBest
    \/ IterateContinue
    \/ IterateStop
    \/ Raise
    \/ FinalHandler

Spec == Init /\ [][Next]_vars

PureNext == CallCore \/ CallPeripherals

PureSpec == PureInit /\ [][PureNext]_vars

\* ------------------------------------------- islands and their problem copies
\* largest number of islands of the archipelago whose copies are followed
MaxCopyIslands == 3
\* evaluations of the objective function an island makes
MaxEvals == 2

\* the driver variables while another program than solve is followed
DriverParked ==
    /\ pc = "parked"
    /\ iterate = FALSE
    /\ start = None
    /\ statics = None
    /\ prob = None
    /\ reactions = None
    /\ archi = <<>>
    /\ ranked = <<>>
    /\ solution = None
    /\ solutions = <<>>
    /\ iteration = 0
    /\ round = 0
    /\ handled = <<>>
    /\ handlerCalls = 0
    /\ failed = "no"
    /\ bestFile = <<>>
    /\ finalCalls = 0
    /\ roundBest = <<>>
    /\ determined = <<>>

\* buffers that can be allocated: two for the problem and two per island
Buffers == 1..(2 * (MaxCopyIslands + 1))

\* CoreProblem.__init__, lines 76-77: np.empty for _result_mem and _cost_mem,
\* two arrays that did not exist before; next is the first unused buffer
CoreProblemBuffers(next) == [result_mem |-> next, cost_mem |-> next + 1]

\* CoreProblem.__deepcopy__ / __copy__: __get_deepcopy__ constructs a new
\* CoreProblem, which allocates its own buffers
DeepcopySameObject(p, next) == p

CoreProblemDeepcopy(p, next) == CoreProblemBuffers(next)

MemInit ==
    /\ \E n \in 1..MaxCopyIslands :
          mem = [next |-> 3,
                 prob |-> CoreProblemBuffers(1),
                 n_islands |-> n,
                 islands |-> <<>>,
                 cells |-> [b \in Buffers |-> 0]]
    /\ DriverParked
    /\ pure = PureParked
    /\ call = CallParked

\* archipelago(algorithm, prob, n_islands - 1, ...) and island(algorithm,
\* prob, ...): every island is built on a copy of prob
NewIsland ==
    /\ mem # MemParked
    /\ Len(mem.islands) < mem.n_islands
    /\ mem' = [mem EXCEPT
                 !.islands = Append(@, [prob |-> CoreProblemDeepcopy(mem.prob,
                                                                    mem.next),
                                        phase |-> "idle",
                                        evals |-> 0,
                                        read |-> 0]),
                 !.next = @ + 2]
    /\ UNCHANGED <<driverVars, pure, call>>

\* _objfun_impl on island i, lines 93-97: the ODE function is handed
\* self._result_mem of the problem of the island
OdeCall(i) ==
    /\ mem # MemParked
    /\ Len(mem.islands) = mem.n_islands
    /\ i \in 1..Len(mem.islands)
    /\ mem.islands[i].phase = "idle"
    /\ mem.islands[i].evals < MaxEvals
    /\ mem' = [mem EXCEPT
                 !.islands[i].phase = "ode",
                 !.cells[mem.islands[i].prob.result_mem] = i]
    /\ UNCHANGED <<driverVars, pure, call>>

\* _objfun_impl on island i, lines 98-101: the results are normalised and the
\* residuals are written with out=self._cost_mem
CostCall(i) ==
    /\ mem # MemParked
    /\ i \in 1..Len(mem.islands)
    /\ mem.islands[i].phase = "ode"
    /\ mem' = [mem EXCEPT
                 !.islands[i].phase = "cost",
                 !.islands[i].read = mem.cells[mem.islands[i].prob.result_mem],
                 !.cells[mem.islands[i].prob.cost_mem] = i]
    /\ UNCHANGED <<driverVars, pure, call>>

\* _objfun_impl on island i, lines 99-104: np.sum over the cost buffer
ObjfunReturn(i) ==
    /\ mem # MemParked
    /\ i \in 1..Len(mem.islands)
    /\ mem.islands[i].phase = "cost"
    /\ mem' = [mem EXCEPT
                 !.islands[i].phase = "idle",
                 !.islands[i].read = mem.cells[mem.islands[i].prob.cost_mem],
                 !.islands[i].evals = @ + 1]
    /\ UNCHANGED <<driverVars, pure, call>>

CopyNext ==
    \/ NewIsland
    \/ \E i \in 1..MaxCopyIslands : OdeCall(i)
    \/ \E i \in 1..MaxCopyIslands : CostCall(i)
    \/ \E i \in 1..MaxCopyIslands : ObjfunReturn(i)

CopySpec == MemInit /\ [][CopyNext]_vars

\* ------------------------------------------------ direct calls: island count
\* island counts handed to OptimizationArgs
IslandInputs == -1..2
\* psutil.cpu_count() of the machine
CpuCounts == {1, 4}
\* calls of the num_islands setter on one OptimizationArgs
MaxSets == 2

\* a Python value that is an int, and the function object psutil.cpu_count
IntValue(n) == [kind |-> "int", v |-> n]
CpuCountFunction == [kind |-> "function", v |-> 0]

\* OptimizationArgs.__init__: self.__islands = num_cores
OptimizationArgs(num_cores) == [islands |-> IntValue(num_cores)]

\* OptimizationArgs.num_islands, the setter: below one the attribute is given
\* the function psutil.cpu_count, and then, in every case, num_islands
NumIslandsSetter(self, num_islands) ==
    LET below == IF num_islands < 1
                 THEN [self EXCEPT !.islands = CpuCountFunction]
                 ELSE self
    IN  [below EXCEPT !.islands = IntValue(num_islands)]

\* terminal.get_main_optimization_args, lines 181-183 and 197: cores <= 0 is
\* replaced by default["cores"], which is psutil.cpu_count()
get_main_optimization_args(cores, cpu) ==
    OptimizationArgs(IF cores <= 0 THEN cpu ELSE cores)

ArgsCalls ==
    [fn : {"OptimizationArgs"}, cpu : CpuCounts, given : IslandInputs,
     via : {"constructor", "terminal"}, made : {FALSE},
     obj : {OptimizationArgs(0)}, last : {0},
     sets : {0}, built : {FALSE}, n_islands : {IntValue(0)}]

\* an OptimizationArgs is made, by the terminal or by a direct construction;
\* `last` is the island count handed over last
ArgsConstruct ==
    /\ call.fn = "OptimizationArgs"
    /\ ~call.made
    /\ call' = [call EXCEPT
                  !.made = TRUE,
                  !.obj = IF call.via = "terminal"
                          THEN get_main_optimization_args(call.given, call.cpu)
                          ELSE OptimizationArgs(call.given),
                  !.last = call.given]
    /\ UNCHANGED <<driverVars, pure, mem>>

\* args.num_islands = v
ArgsSetNumIslands(v) ==
    /\ call.fn = "OptimizationArgs"
    /\ call.made
    /\ ~call.built
    /\ call.sets < MaxSets
    /\ call' = [call EXCEPT !.obj = NumIslandsSetter(call.obj, v),
                            !.last = v,
                            !.sets = @ + 1]
    /\ UNCHANGED <<driverVars, pure, mem>>

\* BaseOptimization.build, line 87: _n_islands = opt_args.num_islands
ArgsBuild ==
    /\ call.fn = "OptimizationArgs"
    /\ call.made
    /\ ~call.built
    /\ call' = [call EXCEPT !.built = TRUE, !.n_islands = call.obj.islands]
    /\ UNCHANGED <<driverVars, pure, mem>>

\* ------------------------------------- direct calls: algorithm parameters
\* names a parameter file can hold
ParamNames == {"gen", "f", "variant", "self", "bogus"}
\* values of the parameters
ParamValues == {1, 2}
\* the algorithms and the keyword parameters their constructors take
Algorithms == {"DE", "PSO"}
Accepts(algo) == IF algo = "DE" THEN {"gen", "f"} ELSE {"gen", "variant"}

\* inspect.signature(self._algorithm.__init__).parameters: __init__ is taken
\* from the class, so its first parameter, self, is among the names
SignatureParameters(algo) == {"self"} \cup Accepts(algo)

\* BaseOptimization.handle_parameters
handle_parameters(algo, input_params) ==
    [name \in {n \in DOMAIN input_params : n \in SignatureParameters(algo)}
        |-> input_params[name]]

\* self._algorithm(**kwargs): the instance is bound to self, so a keyword
\* named self is a second value for it, and a keyword the constructor does
\* not take is unexpected
AlgorithmCall(algo, kwargs) ==
    IF "self" \in DOMAIN kwargs \/ ~(DOMAIN kwargs \subseteq Accepts(algo))
    THEN [ok |-> FALSE, error |-> "TypeError"]
    ELSE [ok |-> TRUE, type |-> algo, kwargs |-> kwargs]

\* BaseOptimization.build, lines 75-82
build_algorithm(algo, params) ==
    LET valid_params == handle_parameters(algo, params)
    IN  IF Cardinality(DOMAIN valid_params) > 0
        THEN AlgorithmCall(algo, valid_params)
        ELSE AlgorithmCall(algo, <<>>)

ParamMaps == UNION {[D -> ParamValues] : D \in SUBSET ParamNames}

BuildCalls ==
    [fn : {"build"}, algo : Algorithms, params : ParamMaps,
     called : {FALSE}, res : {None}]

\* optimization.build(context, ...) with the parameters of the context
CallBuild ==
    /\ call.fn = "build"
    /\ ~call.called
    /\ call' = [call EXCEPT !.called = TRUE,
                            !.res = build_algorithm(call.algo, call.params)]
    /\ UNCHANGED <<driverVars, pure, mem>>

\* ------------------------------------------ direct calls: factory.build
\* largest number of slots by which dim and the bounds lists exceed 2n
MaxExtraDim == 3

\* dimensions and lengths of bounds lists handed to build
BuildDims == (2 * NumNodes)..(2 * NumNodes + MaxExtraDim)

\* a pair of bounds lists of lengths l and u
BoundsOfLen(l, u) == <<[i \in 1..l |-> 0], [i \in 1..u |-> 20]>>

FactoryCalls ==
    [fn : {"factory.build"}, dim : BuildDims, lower : BuildDims,
     upper : BuildDims, reactions : StartMaps, called : {FALSE}, res : {None}]

\* factory.build(dim, bounds, vector_map) of a CoreProblemFactory
CallFactoryBuild ==
    /\ call.fn = "factory.build"
    /\ ~call.called
    /\ call' = [call EXCEPT
                  !.called = TRUE,
                  !.res = build(call.dim, BoundsOfLen(call.lower, call.upper),
                                generate_reactions_vector(call.reactions),
                                <<>>).problem]
    /\ UNCHANGED <<driverVars, pure, mem>>

\* ------------------------------------------ direct calls: the cost function
\* The simulated values (the ODE function is an argument of the factory) are
\* inputs: small non-negative integers, one row per time point, one column
\* per gene.  Costs are counted in quarters, so that x / max is exact for the
\* values used here.
Times == {1, 2}

Columns == {1, 2}

Cells == Times \X Columns

ResultValues == {0, 1, 2}

DataValues == {0, 1}

PertFactors == {0, 1}

PertCosts == {0, 3}

NaN == [kind |-> "nan"]

Num(v) == [kind |-> "num", v |-> v]

\* np.amax(results, axis=0), for column c
amax(results, c) ==
    CHOOSE m \in ResultValues :
        /\ \E t \in Times : results[<<t, c>>] = m
        /\ \A t \in Times : results[<<t, c>>] <= m

\* np.divide on floats: 0 / 0 is nan; the quotient is kept in halves
np_divide(x, m) == IF m = 0 THEN NaN ELSE Num((2 * x) \div m)

RECURSIVE np_sum(_, _)
np_sum(f, S) ==
    IF S = {} THEN 0
    ELSE LET c == CHOOSE c \in S : TRUE IN f[c] + np_sum(f, S \ {c})

\* CoreProblem._objfun_impl, lines 98-104: sigma2 is 1 in every call here
CoreObjfunImpl(results, data) ==
    LET norm_results ==
            [c \in Cells |-> np_divide(results[c], amax(results, c[2]))]
    IN  IF \E c \in Cells : norm_results[c].kind = "nan"
        THEN NaN
        ELSE Num(np_sum([c \in Cells |->
                            (2 * data[c] - norm_results[c].v)
                            * (2 * data[c] - norm_results[c].v)], Cells))

\* CoreWithPerturbationsProblem._objfun_impl, lines 161-172
PertObjfunImpl(self, results, data, pert_cost) ==
    LET cost == CoreObjfunImpl(results, data)
    IN  IF cost.kind = "nan" THEN NaN
        ELSE Num(self.factor * pert_cost + cost.v)

\* CoreProblemFactory.__init__, lines 198-203, with the class attribute
\* _s_pert_factor = 0 of line 128
CoreProblemFactoryNew(pert_function_given, pert_factor) ==
    [is_pert |-> pert_function_given,
     s_pert_factor |-> IF pert_function_given THEN pert_factor ELSE 0]

\* new_instance, line 213: pert_factor: float = 0
new_instance_pert_factor == 0

\* problem_setup, core_creation.py lines 62-76: both calls of new_instance
\* leave pert_factor out
problem_setup(is_pert_prob) ==
    CoreProblemFactoryNew(is_pert_prob, new_instance_pert_factor)

\* CoreProblemFactory.build, lines 235-261, called by optimization_setup with
\* pert_factor = main_opt.pert_factor: the keyword lands in **kwargs, which
\* build does not read; the problem takes _factor from the class attribute
\* (line 144)
FactoryBuildProblem(factory, kwargs) ==
    [pert |-> factory.is_pert, factor |-> factory.s_pert_factor]

objfun(problem, results, data, pert_cost) ==
    IF problem.pert
    THEN PertObjfunImpl(problem, results, data, pert_cost)
    ELSE CoreObjfunImpl(results, data)

DataSets == {[c \in Cells |-> d] : d \in DataValues}

CostCalls ==
    [fn : {"objfun"}, w : PertFactors, is_pert : BOOLEAN,
     results : [Cells -> ResultValues], data : DataSets,
     pert_cost : PertCosts, stage : {"given"},
     factory : {CoreProblemFactoryNew(FALSE, 0)},
     problem : {FactoryBuildProblem(CoreProblemFactoryNew(FALSE, 0), <<>>)},
     cost : {Num(0)}]

\* lassim.py line 69
CallProblemSetup ==
    /\ call.fn = "objfun"
    /\ call.stage = "given"
    /\ call' = [call EXCEPT !.stage = "factory",
                            !.factory = problem_setup(call.is_pert)]
    /\ UNCHANGED <<driverVars, pure, mem>>

\* lassim.py line 70, optimization_setup lines 171-176
CallOptimizationSetup ==
    /\ call.fn = "objfun"
    /\ call.stage = "factory"
    /\ call' = [call EXCEPT
                  !.stage = "problem",
                  !.problem = FactoryBuildProblem(call.factory,
                                                  [pert_factor |-> call.w])]
    /\ UNCHANGED <<driverVars, pure, mem>>

\* one evaluation of the problem's objective function
CallObjfun ==
    /\ call.fn = "objfun"
    /\ call.stage = "problem"
    /\ call' = [call EXCEPT
                  !.stage = "evaluated",
                  !.cost = objfun(call.problem, call.results, call.data,
                                  call.pert_cost)]
    /\ UNCHANGED <<driverVars, pure, mem>>

\* ------------------------------------- direct calls: the edge encoding and
\* the solution matrix
MaxMatEdges == 3

MatNodes == {0, 1, 2}

MatWeights == {-2, 1, 5}

MatMaps == {R \in [MatNodes -> SUBSET MatNodes] : EdgeCount(R) <= MaxMatEdges}

\* decision vectors of map R: lambdas 11.., vmaxs after them, one weight per
\* edge
MatVectors(R) ==
    LET n == Cardinality(DOMAIN R)
    IN  {[i \in 1..(2 * n) |-> 10 + i] \o w :
            w \in SeqsOfLen(MatWeights, EdgeCount(R))}

\* numpy boolean-mask assignment vect[mask] = values: the values go, in
\* order, to the True positions in ascending order
np_mask_set(vect, mask, values) ==
    [p \in 1..Len(vect) |->
        IF mask[p] THEN values[Cardinality({q \in 1..p : mask[q]})]
        ELSE vect[p]]

\* numpy boolean-mask indexing vect[mask]
RECURSIVE np_mask_get(_, _)
np_mask_get(vect, mask) ==
    IF vect = <<>> THEN <<>>
    ELSE (IF Head(mask) THEN <<Head(vect)>> ELSE <<>>)
             \o np_mask_get(Tail(vect), Tail(mask))

\* get_solution_matrix with lambda and vmax read pairwise from the vector
SolutionMatrixPairwise(self) ==
    LET num_tfacts == Cardinality(DOMAIN self.reactions_ids)
        react_vect == np_mask_set(self.react_vect, self.react_mask,
                                  SubSeq(self.x, 2 * num_tfacts + 1,
                                         Len(self.x)))
    IN  [ok |-> TRUE,
         matrix |-> [i \in 1..num_tfacts |->
                       <<self.x[2 * i - 1], self.x[2 * i]>>
                           \o SubSeq(react_vect, (i - 1) * num_tfacts + 1,
                                     i * num_tfacts)]]

\* CoreSolution.get_solution_matrix, lines 37-45, as the rows of the frame
get_solution_matrix(self) ==
    LET num_tfacts == Cardinality(DOMAIN self.reactions_ids)
        values == SubSeq(self.x, 2 * num_tfacts + 1, Len(self.x))
    IN  IF MaskSize(self.react_mask) # Len(values)
        THEN [ok |-> FALSE, error |-> "ValueError"]
        ELSE LET react_vect == np_mask_set(self.react_vect, self.react_mask,
                                           values)
             IN  [ok |-> TRUE,
                  matrix |-> [i \in 1..num_tfacts |->
                                <<self.x[i], self.x[num_tfacts + i]>>
                                    \o SubSeq(react_vect,
                                              (i - 1) * num_tfacts + 1,
                                              i * num_tfacts)]]

MatCalls ==
    UNION {[fn : {"matrix"}, R : {R}, x : MatVectors(R), stage : {"given"},
            vm : {<<>>}, res : {[ok |-> FALSE, error |-> "none"]}] :
           R \in MatMaps}

\* generate_reactions_vector on the reactions map
CallGenerateVector ==
    /\ call.fn = "matrix"
    /\ call.stage = "given"
    /\ call' = [call EXCEPT !.stage = "encoded",
                            !.vm = generate_reactions_vector(call.R)]
    /\ UNCHANGED <<driverVars, pure, mem>>

\* CoreSolution.__init__ (lines 22-25) on a champion with vector x and a
\* problem holding the generated pair, then get_solution_matrix
CallSolutionMatrix ==
    /\ call.fn = "matrix"
    /\ call.stage = "encoded"
    /\ call' = [call EXCEPT
                  !.stage = "matrix",
                  !.res = get_solution_matrix(
                              [x |-> call.x, reactions_ids |-> call.R,
                               react_vect |-> call.vm[1],
                               react_mask |-> call.vm[2]])]
    /\ UNCHANGED <<driverVars, pure, mem>>

\* ------------------------------------------- direct calls: the CoreSystem
\* names of transcription factors; their order is the order of the names
NetNames == {10, 20, 30}

\* a network: for each source, the set of the nodes it has influence on
\* (csv_format.parse_network makes a key of every source, and of no other)
Networks == UNION {[K -> SUBSET NetNames] : K \in SUBSET NetNames}

Targets(net) == UNION {net[k] : k \in DOMAIN net}

RECURSIVE CountReactions(_, _)
CountReactions(net, keys) ==
    IF keys = <<>> THEN 0
    ELSE Cardinality(net[Head(keys)]) + CountReactions(net, Tail(keys))

\* CoreSystem.__reactions_from_network (lassim_network.py lines 76-109,
\* core_system.py lines 31-62): the reversed map, its count of reactions,
\* and with correction every empty set replaced by the set tfacts
reactions_from_network(net, tfacts, correction) ==
    LET derived == [t \in (DOMAIN net) \cup Targets(net) |->
                       {r \in DOMAIN net : t \in net[r]}]
        count == CountReactions(net, SortedSeq(DOMAIN net))
        empties == {t \in DOMAIN derived : derived[t] = {}}
    IN  IF correction
        THEN [reactions |-> [t \in DOMAIN derived |->
                               IF derived[t] = {} THEN tfacts
                               ELSE derived[t]],
              react_count |-> count
                                + Cardinality(empties) * Cardinality(tfacts)]
        ELSE [reactions |-> derived, react_count |-> count]

\* lassim_network.CoreSystem.__init__, lines 40-55: tfacts are the keys of
\* the network
CoreSystem(net, correction) ==
    [tfacts |-> DOMAIN net,
     reactions |->
         reactions_from_network(net, DOMAIN net, correction).reactions,
     react_count |->
         reactions_from_network(net, DOMAIN net, correction).react_count]

\* core_system.CoreSystem.__init__, lines 13-29: tfacts are the keys of the
\* network and every node found in its values
CoreSystemLegacy(net, correction) ==
    [tfacts |-> (DOMAIN net) \cup Targets(net),
     reactions |->
         reactions_from_network(net, (DOMAIN net) \cup Targets(net),
                                correction).reactions,
     react_count |->
         reactions_from_network(net, (DOMAIN net) \cup Targets(net),
                                correction).react_count]

num_tfacts(core) == Cardinality(core.tfacts)

\* from_tfacts_to_ids: the i-th name of the sorted set has id i, from 0
from_tfacts_to_ids(core) ==
    LET s == SortedSeq(core.tfacts)
    IN  [t \in core.tfacts |-> (CHOOSE i \in 1..Len(s) : s[i] = t) - 1]

\* from_ids_to_tfacts
from_ids_to_tfacts(core) ==
    LET s == SortedSeq(core.tfacts)
    IN  [i \in 0..(Len(s) - 1) |-> s[i + 1]]

\* SortedDict(core.from_reactions_to_ids()): a name without an id is a
\* missing key of the dictionary tfacts_ids
from_reactions_to_ids(core) ==
    LET tfacts_ids == from_tfacts_to_ids(core)
        names == from_ids_to_tfacts(core)
    IN  IF \E t \in DOMAIN core.reactions :
              t \notin core.tfacts \/ ~(core.reactions[t] \subseteq core.tfacts)
        THEN [ok |-> FALSE, error |-> "KeyError"]
        ELSE [ok |-> TRUE,
              map |-> [i \in {tfacts_ids[t] : t \in DOMAIN core.reactions} |->
                         {tfacts_ids[r] : r \in core.reactions[names[i]]}]]

\* SortedDict(core.from_reactions_ids_to_str(reactions)): the lookups of
\* tfacts_ids[val] and tfacts_ids[key] sit in a try block whose only handler
\* is for AttributeError; an id outside the dictionary raises KeyError
from_reactions_ids_to_str(core, reactions_ids) ==
    LET tfacts_ids == from_ids_to_tfacts(core)
        ids == from_tfacts_to_ids(core)
    IN  IF \E k \in DOMAIN reactions_ids :
              k \notin DOMAIN tfacts_ids
                  \/ ~(reactions_ids[k] \subseteq DOMAIN tfacts_ids)
        THEN [ok |-> FALSE, error |-> "KeyError"]
        ELSE [ok |-> TRUE,
              map |-> [t \in {tfacts_ids[k] : k \in DOMAIN reactions_ids} |->
                         {tfacts_ids[v] : v \in reactions_ids[ids[t]]}]]

NoCore == [tfacts |-> {}, reactions |-> <<>>, react_count |-> 0]

NoResult == [ok |-> FALSE, error |-> "none"]

CoreCalls ==
    [fn : {"CoreSystem"}, net : Networks, correction : BOOLEAN,
     version : {"lassim_network", "core_system"}, stage : {"given"},
     core : {NoCore}, ids : {NoResult}]

\* create_core: CoreSystem(tf_network), and CoreSystem(network, False)
CallCoreSystem ==
    /\ call.fn = "CoreSystem"
    /\ call.stage = "given"
    /\ call' = [call EXCEPT
                  !.stage = "built",
                  !.core = IF call.version = "lassim_network"
                           THEN CoreSystem(call.net, call.correction)
                           ELSE CoreSystemLegacy(call.net, call.correction)]
    /\ UNCHANGED <<driverVars, pure, mem>>

\* optimization_setup, line 166: SortedDict(core.from_reactions_to_ids())
CallReactionsToIds ==
    /\ call.fn = "CoreSystem"
    /\ call.stage = "built"
    /\ call' = [call EXCEPT !.stage = "ids",
                            !.ids = from_reactions_to_ids(call.core)]
    /\ UNCHANGED <<driverVars, pure, mem>>

IdSet == {0, 1, 2}

IdMaps == UNION {[K -> SUBSET IdSet] : K \in SUBSET IdSet}

StrCalls ==
    [fn : {"ids_to_str"}, tfacts : (SUBSET NetNames) \ {{}},
     reactions : IdMaps, stage : {"given"}, res : {NoResult}]

\* a core without reactions over the given names, and the mapping of the
\* given reactions-by-id map consumed into a SortedDict
CallReactionsIdsToStr ==
    /\ call.fn = "ids_to_str"
    /\ call.stage = "given"
    /\ call' = [call EXCEPT
                  !.stage = "consumed",
                  !.res = from_reactions_ids_to_str(
                              CoreSystem([t \in call.tfacts |-> {}], FALSE),
                              call.reactions)]
    /\ UNCHANGED <<driverVars, pure, mem>>

\* --------------------------------------- the per-gene loop of peripherals_job
RecursionLimit == 3

\* the orders in which the generator can hand over the genes
GeneOrders ==
    {<<g>> : g \in GeneIds}
        \cup {<<p[1], p[2]>> : p \in {q \in GeneIds \X GeneIds : q[1] # q[2]}}

\* PeripheralSolution._get_gene_name as it stands when called: the class
\* attribute is `lambda x: gene`, which reads the loop variable at the call
\* (lassim_peripherals.py line 84); unpatched it raises (line 61)
get_gene_name(job) ==
    IF job.patched THEN [ok |-> TRUE, name |-> job.gene]
    ELSE [ok |-> FALSE, error |-> "RuntimeError"]

\* PeripheralSolution.__init__, lines 23-27; born is the gene of the loop at
\* the construction (history)
PeripheralSolution(x, react_ids, job) ==
    [x |-> x, reactions_ids |-> react_ids,
     react_mask_size |-> EdgeCount(react_ids),
     gene_name |-> get_gene_name(job).name, born |-> job.gene]

\* gene_name read from the class function at the time of the read
GeneNameLate(sol, job) == job.gene

\* solution.gene_name: the attribute set at line 27
gene_name(sol, job) == sol.gene_name

\* the property PeripheralSolution.reactions_ids, lines 55-58: its body reads
\* self.reactions_ids, which is the same property; the interpreter stops the
\* recursion at its limit with RecursionError
RECURSIVE PeripheralReactionsIds(_, _, _)
PeripheralReactionsIds(self, job, depth) ==
    IF depth >= RecursionLimit
    THEN [called |-> TRUE, ok |-> FALSE, error |-> "RecursionError"]
    ELSE LET inner == PeripheralReactionsIds(self, job, depth + 1)
         IN  IF ~inner.ok THEN inner
             ELSE [called |-> TRUE, ok |-> TRUE,
                   value |-> inner.value[gene_name(self, job)]]

NotRead == [called |-> FALSE, ok |-> FALSE, error |-> "none"]

JobCalls ==
    [fn : {"peripherals_job"}, todo : GeneOrders,
     reacts : [GeneIds -> SUBSET Nodes], gene : {0}, patched : {FALSE},
     sols : {<<>>}, stage : {"loop"}, read : {NotRead}, best : {<<>>}]

\* lines 81-94: the next gene of the generator, the class function patched,
\* the optimization built on SortedDict({gene: gene_data.reactions})
JobNextGene ==
    /\ call.fn = "peripherals_job"
    /\ call.stage = "loop"
    /\ call.todo # <<>>
    /\ call' = [call EXCEPT !.gene = Head(call.todo), !.patched = TRUE,
                            !.todo = Tail(call.todo), !.stage = "solve",
                            !.read = NotRead]
    /\ UNCHANGED <<driverVars, pure, mem>>

\* solve, lines 116-122: the solution of the first round of this gene
JobSolution ==
    /\ call.fn = "peripherals_job"
    /\ call.stage = "solve"
    /\ LET react_ids == [g \in {call.gene} |-> call.reacts[g]]
           x == [i \in 1..(2 + EdgeCount(react_ids)) |-> 1]
       IN  call' = [call EXCEPT
                      !.sols = Append(@, PeripheralSolution(x, react_ids, call)),
                      !.stage = "iterate"]
    /\ UNCHANGED <<driverVars, pure, mem>>

\* iter_function.wrapper, lines 173-176, with solve lines 147-151 and
\* peripherals_job lines 95-99: the mask holds an edge, the read of
\* solution.reactions_ids raises, solve logs it and returns the solutions
\* found so far, and the loop goes to the next gene.  The read never returns,
\* so the rest of the wrapper (lines 177-197) has no action.
JobIterateRaise ==
    /\ call.fn = "peripherals_job"
    /\ call.stage = "iterate"
    /\ call.sols[Len(call.sols)].react_mask_size > 0
    /\ ~PeripheralReactionsIds(call.sols[Len(call.sols)], call, 0).ok
    /\ call' = [call EXCEPT
                  !.read = PeripheralReactionsIds(call.sols[Len(call.sols)],
                                                  call, 0),
                  !.best = Append(@, call.sols[Len(call.sols)]),
                  !.stage = "loop"]
    /\ UNCHANGED <<driverVars, pure, mem>>

\* iter_function.wrapper, lines 173-174 and 198-199: no edge in the mask
JobIterateStop ==
    /\ call.fn = "peripherals_job"
    /\ call.stage = "iterate"
    /\ call.sols[Len(call.sols)].react_mask_size = 0
    /\ call' = [call EXCEPT
                  !.best = Append(@, call.sols[Len(call.sols)]),
                  !.stage = "loop"]
    /\ UNCHANGED <<driverVars, pure, mem>>

\* line 100: the loop is over
JobReturn ==
    /\ call.fn = "peripherals_job"
    /\ call.stage = "loop"
    /\ call.todo = <<>>
    /\ call' = [call EXCEPT !.stage = "returned"]
    /\ UNCHANGED <<driverVars, pure, mem>>

\* ----------------------------------------- direct calls of iter_function
\* A solution is given a champion, a reactions map and a problem, each on
\* its own (CoreSolution.__init__, lines 22-25): the map R of the solution
\* and the map the problem's mask was generated from need not be the same.
IterVectors(Rm) ==
    {r \o w : r \in SeqsOfLen(Rates, 2 * NumNodes),
              w \in SeqsOfLen(Weights, EdgeCount(Rm))}

IterCalls ==
    UNION {[fn : {"iter_function"}, R : StartMaps, Rm : {Rm},
            x : IterVectors(Rm), called : {FALSE}, res : {NoResult}] :
           Rm \in StartMaps}

\* the solution of the call
IterSolution(c) ==
    LassimSolution([x |-> c.x, f |-> <<1>>], c.R, StartBuild(c.Rm).problem)

CallIterFunction ==
    /\ call.fn = "iter_function"
    /\ ~call.called
    /\ call' = [call EXCEPT
                  !.called = TRUE,
                  !.res = iter_function(StartBuild(call.Rm).statics,
                                        IterSolution(call))]
    /\ UNCHANGED <<driverVars, pure, mem>>

\* ------------------------------------- two factories and the class state
\* cost data and initial states are told apart by an id; id 0 is the
\* np.empty(1) of the class definition (lines 25-30 and 126-128)
DataIds == {1, 2}

FactoryConfigs ==
    [data : DataIds, y0 : DataIds, pert : BOOLEAN, factor : PertFactors]

ClassDefaults ==
    [cost_data |-> 0, y0 |-> 0, pert_data |-> 0, pert_function |-> 0,
     pert_factor |-> 0]

\* CoreProblemFactory.__init__, lines 192-203, on the class attributes cls:
\* with perturbations cost_data has a fourth element and pert_function is
\* given; everything but is_pert goes to the class
FactoryInitClass(cls, cfg) ==
    [cost_data |-> cfg.data,
     y0 |-> cfg.y0,
     pert_data |-> IF cfg.pert THEN cfg.data ELSE cls.pert_data,
     pert_function |-> IF cfg.pert THEN cfg.data ELSE cls.pert_function,
     pert_factor |-> IF cfg.pert THEN cfg.factor ELSE cls.pert_factor]

FactoryInitSelf(cfg) == [is_pert |-> cfg.pert]

\* CoreProblemFactory.build, lines 258-261, with CoreProblem.__init__ lines
\* 58-59 and CoreWithPerturbationsProblem.__init__ lines 143-144: what the
\* new problem reads from the class attributes
FactoryBuildConfig(cls, self) ==
    IF self.is_pert
    THEN [kind |-> "pert", data |-> cls.cost_data, y0 |-> cls.y0,
          pert_data |-> cls.pert_data, pert_function |-> cls.pert_function,
          factor |-> cls.pert_factor]
    ELSE [kind |-> "core", data |-> cls.cost_data, y0 |-> cls.y0]

NoProblem == [kind |-> "none"]

TwoFactoryCalls ==
    [fn : {"factories"}, F : FactoryConfigs, G : FactoryConfigs,
     stage : {"given"}, cls : {ClassDefaults},
     self : {FactoryInitSelf([data |-> 1, y0 |-> 1, pert |-> FALSE,
                              factor |-> 0])},
     other : {FALSE}, first : {NoProblem}, second : {NoProblem}]

\* F = CoreProblemFactory.new_instance(...)
CallNewFactory ==
    /\ call.fn = "factories"
    /\ call.stage = "given"
    /\ call' = [call EXCEPT !.stage = "created",
                            !.cls = FactoryInitClass(call.cls, call.F),
                            !.self = FactoryInitSelf(call.F)]
    /\ UNCHANGED <<driverVars, pure, mem>>

\* F.build(...)
CallBuildFirst ==
    /\ call.fn = "factories"
    /\ call.stage = "created"
    /\ call' = [call EXCEPT
                  !.stage = "built",
                  !.first = FactoryBuildConfig(call.cls, call.self)]
    /\ UNCHANGED <<driverVars, pure, mem>>

\* CoreProblemFactory.new_instance(...) for another factory
CallOtherFactory ==
    /\ call.fn = "factories"
    /\ call.stage = "built"
    /\ ~call.other
    /\ call' = [call EXCEPT !.other = TRUE,
                            !.cls = FactoryInitClass(call.cls, call.G)]
    /\ UNCHANGED <<driverVars, pure, mem>>

\* F.build(...) again, with the arguments of the first call
CallBuildSecond ==
    /\ call.fn = "factories"
    /\ call.stage = "built"
    /\ call' = [call EXCEPT
                  !.stage = "rebuilt",
                  !.second = FactoryBuildConfig(call.cls, call.self)]
    /\ UNCHANGED <<driverVars, pure, mem>>

\* --------------------------------------------------- direct calls, together
CallInputs == ArgsCalls \cup BuildCalls \cup FactoryCalls \cup CostCalls
              \cup MatCalls \cup CoreCalls \cup StrCalls
              \cup JobCalls \cup IterCalls
              \cup TwoFactoryCalls

CallInit ==
    /\ call \in CallInputs
    /\ DriverParked
    /\ pure = PureParked
    /\ mem = MemParked

CallNext ==
    \/ ArgsConstruct
    \/ \E v \in IslandInputs : ArgsSetNumIslands(v)
    \/ ArgsBuild
    \/ CallBuild
    \/ CallFactoryBuild
    \/ CallProblemSetup
    \/ CallOptimizationSetup
    \/ CallObjfun
    \/ CallGenerateVector
    \/ CallSolutionMatrix
    \/ CallCoreSystem
    \/ CallReactionsToIds
    \/ CallReactionsIdsToStr
    \/ JobNextGene
    \/ JobSolution
    \/ JobIterateRaise
    \/ JobIterateStop
    \/ JobReturn
    \/ CallIterFunction
    \/ CallNewFactory
    \/ CallBuildFirst
    \/ CallOtherFactory
    \/ CallBuildSecond

CallSpec == CallInit /\ [][CallNext]_vars

\* --------------------------------- a start problem out of step with its map
\* BaseOptimization.build takes the start problem and the reactions map as
\* two independent arguments (lines 46-89) and stores both unchecked.  Here
\* the problem was built for a map with one edge, and the map handed over
\* next to it has none: the mask of every solution says one edge is present,
\* and the map has no edge to take away.
EmptyMap == [g \in Nodes |-> {}]

SkewMaps == {R \in StartMaps : MaskSize(generate_reactions_vector(R)[2]) = 1}

SkewInit ==
    /\ \E R \in SkewMaps :
          /\ start = [problem |-> StartBuild(R).problem,
                      reactions |-> EmptyMap]
          /\ statics = StartBuild(R).statics
    /\ iterate \in BOOLEAN
    /\ pc = "solve"
    /\ prob = None
    /\ reactions = None
    /\ archi = <<>>
    /\ ranked = <<>>
    /\ solution = None
    /\ solutions = <<>>
    /\ iteration = 0
    /\ round = 0
    /\ handled = <<>>
    /\ handlerCalls = 0
    /\ failed = "no"
    /\ bestFile = <<>>
    /\ finalCalls = 0
    /\ roundBest = <<>>
    /\ determined = <<>>
    /\ pure = PureParked
    /\ mem = MemParked
    /\ call = CallParked

\* solve, lines 126-128 and 137-139 with 147-151: the call of self._iterate
\* raises (remove_lowest_reaction, core_functions.py line 97, or the build of
\* the next problem), `except Exception` logs it, and `finally` returns the
\* list of the solutions found so far
IterateRaise ==
    /\ pc = "iterate"
    /\ ~iter_function(statics, solution).ok
    /\ failed' = iter_function(statics, solution).error
    /\ archi' = <<>>
    /\ ranked' = <<>>
    /\ handled' = <<>>
    /\ pc' = "returned"
    /\ UNCHANGED <<iterate, start, statics, prob, reactions, solution,
                   solutions, iteration, round, handlerCalls, bestFile,
                   finalCalls, roundBest, determined, pure, mem, call>>

\* with such a start no call of the iteration function returns: the two
\* actions of its return are left out
SkewNext ==
    \/ SolveBegin
    \/ GenerateArchipelago
    \/ \E i \in 1..NumIslands : IslandEvolve(i)
    \/ Join
    \/ GetSolutions
    \/ HandleSolutions
    \/ ReturnBest
    \/ IterateRaise
    \/ Raise
    \/ FinalHandler

SkewSpec == SkewInit /\ [][SkewNext]_vars

\* ------------------------------------------------------------------- claims
\* edges of the reaction map solve was started on
StartEdges == EdgeCount(start.reactions)

\* solve has returned its list to the caller
Returned == pc \in {"returned", "done"}

\* a round of solve is between the start of _generate_solution and its return
InRound == pc \in {"generate", "evolve", "joined", "ranked", "handled"}

\* the costs of the list L never decrease
CostAscending(L) == \A i, j \in 1..Len(L) : i < j => L[i].cost <= L[j].cost

\* L holds the elements of H, each once, equal costs in the order of H
StableArrangement(L, H) ==
    /\ Len(L) = Len(H)
    /\ \E f \in [1..Len(L) -> 1..Len(L)] :
          /\ \A i, j \in 1..Len(L) : i # j => f[i] # f[j]
          /\ \A i \in 1..Len(L) : L[i] = H[f[i]]
          /\ \A i, j \in 1..Len(L) :
                (i < j /\ L[i].cost = L[j].cost) => f[i] < f[j]

\* C1: the run that meets no failure has removed every edge of the start map
\* when it ends, after exactly as many pruning steps as the map has edges
C1_AllEdgesRemoved ==
    (Returned /\ failed = "no" /\ iterate) =>
        /\ round - 1 = StartEdges
        /\ Len(roundBest) = StartEdges + 1
        /\ EdgeCount(solution.reactions_ids) = 0

\* C1: every pruning step removes exactly one edge of the map of the solution
C1_OneEdgePerStep ==
    (pc = "iterate" /\ pc' = "generate") =>
        /\ EdgeCount(reactions') = EdgeCount(solution.reactions_ids) - 1
        /\ \A k \in DOMAIN reactions' :
              reactions'[k] \subseteq solution.reactions_ids[k]

\* position of solve inside a round, in the order the code runs
PcOrder ==
    CASE pc = "generate" -> 1
      [] pc = "evolve" -> 2
      [] pc = "joined" -> 3
      [] pc = "ranked" -> 4
      [] pc = "handled" -> 5
      [] pc = "iterate" -> 6
      [] OTHER -> 0

\* steps one round can take at most
RoundSpan == 7 * (NumIslands + 1)

\* a number every step of the run increases
Clock ==
    CASE pc = "solve" -> 0
      [] pc = "returned" -> (StartEdges + 2) * RoundSpan
      [] pc = "done" -> (StartEdges + 2) * RoundSpan + 1
      [] OTHER -> round * RoundSpan + PcOrder * (NumIslands + 1)
                  + Cardinality({i \in 1..Len(archi) : archi[i].champ # None})

\* C1: the run never holds more rounds than the start map has edges, plus the
\* round of the start problem, and the clock stays under its ceiling
C1_Bounded ==
    /\ round <= StartEdges + 1
    /\ Clock <= (StartEdges + 2) * RoundSpan + 1

\* C1: until the caller's final call is done, a next step exists
C1_NeverStuck ==
    /\ (pc = "evolve") => \E c \in Champions(prob) : TRUE
    /\ (pc = "iterate") => iter_function(statics, solution).ok
    /\ pc \in {"solve", "generate", "evolve", "joined", "ranked", "handled",
               "iterate", "returned", "done"}

\* C1: every step advances the clock, so no run takes steps forever
C1_ClockAdvances == Clock' > Clock

\* C1: started on a map of E edges, solve always ends (every step advances a
\* bounded clock and a next step exists until the end), and when no step
\* fails it ends after exactly E pruning steps that remove one edge each
C1_PruningTerminates ==
    /\ [](C1_AllEdgesRemoved /\ C1_Bounded /\ C1_NeverStuck)
    /\ [][C1_OneEdgePerStep /\ C1_ClockAdvances]_vars

C1_Witness ==
    /\ pc = "done" /\ failed = "no" /\ iterate
    /\ StartEdges = 2 /\ round = 3

\* C2 as claimed: pruning never builds a problem for a map without edges, and
\* no round runs on one
C2_NoEdgelessProblem ==
    (InRound /\ round > 1) => MaskSize(prob.vector_map_mask) >= 1

\* C2, state part: every problem pruning builds fits its map, edges or not,
\* and solve ends without failure only on a solution without edges
C2_BuiltForEveryMap ==
    /\ (InRound /\ round > 1) =>
          /\ prob # None
          /\ prob.dimension = 2 * NumNodes + EdgeCount(reactions)
          /\ MaskSize(prob.vector_map_mask) = EdgeCount(reactions)
    /\ (pc = "returned" /\ failed = "no" /\ iterate) =>
          /\ prob = None
          /\ MaskSize(solution.react_mask) = 0
          /\ Len(solution.x) = 2 * NumNodes

\* C2, step part: the iteration function goes by the mask of the solution
C2_Step ==
    (pc = "iterate" /\ pc' # "iterate" /\ failed' = "no") =>
        IF MaskSize(solution.react_mask) > 0
        THEN /\ pc' = "generate"
             /\ prob' # None
             /\ MaskSize(prob'.vector_map_mask)
                    = MaskSize(solution.react_mask) - 1
        ELSE /\ pc' = "returned"
             /\ prob' = None
             /\ reactions' = None

\* C2 as the code has it: the iteration function answers 'do not continue'
\* (and builds nothing) only for a solution without edges; when the removal
\* leaves the map without edges it still builds the problem of dimension 2n,
\* and one more round runs on it before solve ends
C2_StopsOnEdgelessSolution ==
    /\ []C2_BuiltForEveryMap
    /\ [][C2_Step]_vars

C2_Witness ==
    /\ pc = "evolve" /\ round > 1
    /\ EdgeCount(reactions) = 0
    /\ prob.dimension = 2 * NumNodes
    /\ \E i \in 1..Len(archi) : archi[i].champ # None

\* C3 as claimed: the returned list holds the round bests in round order
C3_RoundOrder == Returned => solutions = roundBest

\* C3 as the code has it: the returned list holds one solution per round that
\* returned its best, ordered by cost ascending, equal costs in round order
C3_CostOrder ==
    /\ CostAscending(solutions)
    /\ StableArrangement(solutions, roundBest)

C3_Witness ==
    /\ Returned
    /\ Len(roundBest) = 3
    /\ roundBest[2].cost < roundBest[1].cost
    /\ roundBest[3].cost = roundBest[1].cost

\* C4 as claimed: after a failure in round k the list holds the bests of the
\* rounds before k and nothing else
C4_OnlyEarlierRounds ==
    (Returned /\ failed # "no") => Len(solutions) = round - 1

\* C4, state part: a failure ends solve at once, and the list holds the bests
\* of the rounds before k, and the best of round k too when the step that
\* failed is the pruning step
C4_ListAfterFailure ==
    (failed # "no") =>
        /\ Returned
        /\ archi = <<>> /\ ranked = <<>>
        /\ StableArrangement(solutions, roundBest)
        /\ Len(solutions) = (IF failed = "iterate" THEN round ELSE round - 1)
        /\ handlerCalls = Len(solutions)

\* C4, step part: after the failure no round is retried or started
C4_NothingAfterFailure ==
    (failed # "no") =>
        /\ pc' = "done"
        /\ UNCHANGED <<failed, round, solutions, roundBest, handlerCalls,
                       prob, reactions, archi, determined>>

\* C4 as the code has it: an exception in round k is not propagated; solve
\* stops, retries nothing, starts no round and returns the bests of the rounds
\* before k, together with the best of round k when the pruning step failed
C4_FailureEndsRun ==
    /\ []C4_ListAfterFailure
    /\ [][C4_NothingAfterFailure]_vars

C4_Witness ==
    /\ pc = "returned" /\ failed = "iterate"
    /\ round = 2 /\ Len(solutions) = 2

\* C5: every round best that was determined is in the list solve returns
C5_DeterminedIsReturned ==
    Returned =>
        /\ Len(solutions) = Len(determined)
        /\ \A i \in 1..Len(determined) :
              \E j \in 1..Len(solutions) : solutions[j] = determined[i]

\* C6: a pruning step that succeeds on a solution of n nodes and e >= 1 edges
\* builds a problem of dimension 2n + (e - 1), one less than the dimension of
\* the problem the solution came from, over the same n nodes
C6_Step ==
    (pc = "iterate" /\ pc' = "generate") =>
        LET n == Cardinality(DOMAIN solution.reactions_ids)
            e == EdgeCount(solution.reactions_ids)
        IN  /\ e >= 1
            /\ prob.dimension = 2 * n + e
            /\ prob'.dimension = prob.dimension - 1
            /\ prob'.dimension = 2 * n + (e - 1)
            /\ Len(prob'.lb) = prob'.dimension /\ Len(prob'.ub) = prob'.dimension
            /\ DOMAIN reactions' = DOMAIN solution.reactions_ids
            /\ Len(prob'.vector_map_mask) = n * n

C6_DimensionDropsByOne == [][C6_Step]_vars

C6_Witness ==
    /\ pc = "generate" /\ round = 3
    /\ prob.dimension = 2 * NumNodes + StartEdges - 2

\* remove_lowest_reaction was called and returned a pair
PureReturned == pure.called /\ pure.res.ok

\* the k values of the vector the call received
GivenK ==
    SubSeq(pure.v, 2 * Cardinality(DOMAIN pure.given) + 1, Len(pure.v))

\* positions, in node-then-regulator order, of the edges of the received map
\* that the returned map lacks
RemovedPositions ==
    LET E == EdgeSeq(pure.given)
    IN  {k \in 1..Len(E) :
            \/ E[k][1] \notin DOMAIN pure.res.r
            \/ E[k][2] \notin pure.res.r[E[k][1]]}

\* k is the first position of the smallest absolute value of the weights
FirstMinimal(k) ==
    /\ k \in 1..Len(GivenK)
    /\ \A j \in 1..Len(GivenK) : Abs(GivenK[k]) <= Abs(GivenK[j])
    /\ \A j \in 1..(k - 1) : Abs(GivenK[j]) > Abs(GivenK[k])

\* C7: the edge remove_lowest_reaction removes is the edge whose weight has
\* the smallest absolute value, and among several of that value the first in
\* node-then-regulator order, so the input decides the choice
C7_FirstMinimalEdge ==
    PureReturned =>
        /\ Cardinality(RemovedPositions) = 1
        /\ \A k \in RemovedPositions : FirstMinimal(k)

C7_Witness ==
    /\ PureReturned
    /\ pure.variant = "core"
    /\ \E k \in RemovedPositions : \E j \in (k + 1)..Len(GivenK) :
          /\ Abs(GivenK[j]) = Abs(GivenK[k])
          /\ GivenK[j] # GivenK[k]
          /\ j <= Len(EdgeSeq(pure.given))

\* C8: remove_lowest_reaction(v, R), core and peripherals, returns v without
\* the slot 2n+k of the removed edge and nothing else changed, and a map of
\* the same keys that lacks exactly the k-th edge of R; R itself is as before
C8_Frame ==
    PureReturned =>
        LET n == Cardinality(DOMAIN pure.given)
            E == EdgeSeq(pure.given)
        IN  /\ Cardinality(RemovedPositions) = 1
            /\ \A k \in RemovedPositions :
                  /\ Len(pure.res.v) = Len(pure.v) - 1
                  /\ \A i \in 1..(2 * n + k - 1) : pure.res.v[i] = pure.v[i]
                  /\ \A i \in (2 * n + k)..Len(pure.res.v) :
                        pure.res.v[i] = pure.v[i + 1]
                  /\ DOMAIN pure.res.r = DOMAIN pure.given
                  /\ \A key \in DOMAIN pure.given :
                        pure.res.r[key] =
                            IF key = E[k][1] THEN pure.given[key] \ {E[k][2]}
                            ELSE pure.given[key]
            /\ EdgeCount(pure.res.r) = EdgeCount(pure.given) - 1
            /\ pure.r = pure.given

C8_Witness ==
    /\ PureReturned
    /\ pure.variant = "peripherals"
    /\ EdgeCount(pure.given) = 3
    /\ \E k \in RemovedPositions : k = 2 /\ EdgeSeq(pure.given)[k][1] = 44
    /\ pure.r = pure.given

\* C9: the handler is called once per round, with the whole ranked list (one
\* solution per island), after every island has finished and before the best
\* is returned, so before the next problem is built
C9_HandlerOncePerRound ==
    /\ (pc = "handled") =>
          /\ handled = ranked
          /\ Len(handled) = NumIslands
          /\ CostAscending(handled)
          /\ \A i \in 1..Len(archi) : archi[i].champ # None
          /\ StableArrangement(handled,
                [i \in 1..Len(archi) |->
                    LassimSolution(archi[i].champ, reactions, prob)])
    /\ (pc \in {"generate", "evolve", "joined", "ranked"}) =>
          handlerCalls = round - 1
    /\ (pc \in {"handled", "iterate"}) => handlerCalls = round
    /\ Len(roundBest) <= handlerCalls
    /\ handlerCalls <= round

C9_Witness ==
    /\ pc = "handled" /\ round = 2
    /\ handled[1].cost < handled[2].cost

C11_RankedByCost ==
    /\ (pc \in {"ranked", "handled"}) =>
          /\ CostAscending(ranked)
          /\ Len(ranked) = Len(archi)
          /\ \E f \in [1..Len(ranked) -> 1..Len(archi)] :
                /\ \A i, j \in 1..Len(ranked) : i # j => f[i] # f[j]
                /\ \A i \in 1..Len(ranked) :
                      /\ ranked[i].cost = archi[f[i]].champ.f[1]
                      /\ ranked[i].x = archi[f[i]].champ.x
          /\ \A i \in 1..Len(archi) : ranked[1].cost <= archi[i].champ.f[1]
          /\ determined[round] = ranked[1]
    /\ \A k \in 1..Len(roundBest) : roundBest[k] = determined[k]
    /\ (pc = "iterate") => solution = determined[round]

C11_Witness ==
    /\ pc = "handled"
    /\ archi[1].champ.f[1] > archi[2].champ.f[1]
    /\ ranked[1].cost < ranked[2].cost
    /\ ranked[1].x = archi[2].champ.x

C13_BarrierPassed ==
    /\ (pc \in {"joined", "ranked", "handled"}) =>
          /\ Len(archi) = NumIslands
          /\ \A i \in 1..Len(archi) : archi[i].champ # None
    /\ (pc = "iterate") =>
          /\ Len(roundBest) = round
          /\ solution = roundBest[round]
          /\ archi = <<>>

\* C13, step part: the champions are read in the step after the barrier, and
\* the problem of the next round is built and its islands are created only
\* from the best solution of the round before
C13_Step ==
    /\ (ranked' # ranked /\ ranked' # <<>>) =>
          /\ pc = "joined"
          /\ \A i \in 1..Len(archi) : archi[i].champ # None
          /\ archi' = archi
    /\ (round' # round /\ round >= 1) =>
          /\ pc = "iterate"
          /\ round' = round + 1
          /\ Len(roundBest) = round
          /\ prob'.best_x = <<core_remove_lowest_reaction(
                                  roundBest[round].x,
                                  roundBest[round].reactions_ids).v>>
    /\ (prob' # prob /\ round >= 1) => pc = "iterate"
    /\ (archi = <<>> /\ archi' # <<>>) =>
          /\ pc = "generate"
          /\ Len(roundBest) = round - 1

\* C13: the champions of a round are read only after every island of the
\* round has ended its evolution, and the next round (pruning, problem build,
\* islands) begins only after the barrier has returned and the best solution
\* of the round is known
C13_RoundsInSequence ==
    /\ []C13_BarrierPassed
    /\ [][C13_Step]_vars

C13_Witness ==
    /\ pc = "joined" /\ round = 2
    /\ Len(roundBest) = 1
    /\ \A i \in 1..NumIslands : archi[i].champ # None
    /\ prob.best_x # <<>>

\* the buffers of a problem instance
BuffersOf(p) == {p.result_mem, p.cost_mem}

C15_BelowOneMeansCpus ==
    (call.fn = "OptimizationArgs" /\ call.made) =>
        /\ call.obj.islands.kind = "int"
        /\ (call.last < 1) => call.obj.islands.v = call.cpu
        /\ call.built => call.n_islands.v >= 1

\* C16: for every parameter map and algorithm, build succeeds and hands the
\* algorithm exactly the entries of the map whose names the algorithm takes;
\* every other entry is dropped without an error
C16_FilterToAccepted ==
    (call.fn = "build" /\ call.called) =>
        /\ call.res.ok
        /\ DOMAIN call.res.kwargs = DOMAIN call.params \cap Accepts(call.algo)
        /\ \A n \in DOMAIN call.res.kwargs :
              call.res.kwargs[n] = call.params[n]

\* C17: build returns no problem, and fails, whenever the lower or the upper
\* bounds list is not dim long or the map holds another number of edges than
\* dim - 2n; from inputs that agree it builds the problem
C17_BuildValidates ==
    (call.fn = "factory.build" /\ call.called) =>
        (call.res.ok <=>
            /\ call.lower = call.dim
            /\ call.upper = call.dim
            /\ EdgeCount(call.reactions) = call.dim - 2 * NumNodes)

\* C18: when the pruning step cannot locate the edge to remove although the
\* mask says that edges are present, the run aborts with the error visible to
\* the caller: solve does not return normally, and the caller never goes on
\* to its final call with the list.
C18_LostEdgeIsFatal ==
    failed = "IndexError" => pc \notin {"returned", "done"}

\* C19: with perturbation data present and the weight w configured in the
\* optimization arguments, the cost the problem returns for a decision vector
\* is the base cost plus w times the perturbation cost.
C19_ConfiguredWeightUsed ==
    (call.fn = "objfun" /\ call.stage = "evaluated" /\ call.is_pert
        /\ CoreObjfunImpl(call.results, call.data).kind = "num")
    => call.cost = Num(CoreObjfunImpl(call.results, call.data).v
                       + call.w * call.pert_cost)

\* C20: the cost function returns a defined cost, not NaN, also when a
\* column of the simulated values has maximum exactly 0.
C20_CostDefined ==
    (call.fn = "objfun" /\ call.stage = "evaluated"
        /\ \E c \in Columns : amax(call.results, c) = 0)
    => call.cost.kind = "num"

\* the flat n*n part of the rows of a solution matrix
RECURSIVE DenseOf(_)
DenseOf(matrix) ==
    IF matrix = <<>> THEN <<>>
    ELSE SubSeq(Head(matrix), 3, Len(Head(matrix))) \o DenseOf(Tail(matrix))

MatN == Cardinality(MatNodes)

MatEncoded == call.fn = "matrix" /\ call.stage \in {"encoded", "matrix"}

MatDone == call.fn = "matrix" /\ call.stage = "matrix"

MatEdgeWeights == SubSeq(call.x, 2 * MatN + 1, Len(call.x))

\* C21: for a reaction map over node ids 0..n-1 the generated mask is True
\* exactly at the flat positions i * n + j with j in reactions[i]; the edge
\* weights scattered into the dense matrix through the mask and read back
\* through the mask are the same vector; the True positions decode to the
\* edge set of the map.
C21_EncodingRoundTrip ==
    /\ MatEncoded =>
          /\ Len(call.vm[2]) = MatN * MatN
          /\ \A i \in MatNodes : \A j \in MatNodes :
                call.vm[2][i * MatN + j + 1] <=> (j \in call.R[i])
          /\ {<<(p - 1) \div MatN, (p - 1) % MatN>> :
                 p \in {q \in 1..Len(call.vm[2]) : call.vm[2][q]}}
               = {e \in MatNodes \X MatNodes : e[2] \in call.R[e[1]]}
    /\ MatDone =>
          /\ call.res.ok
          /\ np_mask_get(DenseOf(call.res.matrix), call.vm[2])
               = MatEdgeWeights

C21_Witness ==
    /\ MatDone
    /\ call.R = (0 :> {} @@ 1 :> {0, 2} @@ 2 :> {2})
    /\ MatEdgeWeights = <<5, 1, -2>>

\* C22: the solution matrix has n rows; row i is lambda of node i, vmax of
\* node i, then row i of the n*n matrix that holds the edge weights, in
\* order, at the True positions of the mask and 0 elsewhere.
C22_MatrixRows ==
    MatDone =>
       /\ call.res.ok
       /\ Len(call.res.matrix) = MatN
       /\ \A i \in 1..MatN :
             /\ Len(call.res.matrix[i]) = MatN + 2
             /\ call.res.matrix[i][1] = call.x[i]
             /\ call.res.matrix[i][2] = call.x[MatN + i]
             /\ \A j \in 1..MatN :
                   call.res.matrix[i][2 + j] =
                      IF call.vm[2][(i - 1) * MatN + j]
                      THEN MatEdgeWeights[
                              Cardinality({q \in 1..((i - 1) * MatN + j) :
                                              call.vm[2][q]})]
                      ELSE 0

\* the map of the serialisation test: True at flat positions 3, 5 and 8
C22_Witness ==
    /\ MatDone
    /\ {q \in 1..Len(call.vm[2]) : call.vm[2][q]} = {4, 6, 9}
    /\ call.res.matrix[2] = <<12, 15, 1, 0, 5>>
    /\ call.res.matrix[3] = <<13, 16, 0, 0, -2>>

CoreBuilt == call.fn = "CoreSystem" /\ call.stage \in {"built", "ids"}

AllNodes(net) == (DOMAIN net) \cup Targets(net)

Regulators(net, t) == {r \in DOMAIN net : t \in net[r]}

\* C23: the derived map has every key and every target of the network as a
\* key; without correction reactions[t] is the set of the nodes that have t
\* as a target; with correction every node with no regulator gets the set of
\* all nodes and the others keep their set; react_count is the number of
\* edges of the map.
C23_ReversedMap ==
    CoreBuilt =>
       /\ DOMAIN call.core.reactions = AllNodes(call.net)
       /\ \A t \in AllNodes(call.net) :
             call.core.reactions[t] =
                IF call.correction /\ Regulators(call.net, t) = {}
                THEN AllNodes(call.net)
                ELSE Regulators(call.net, t)
       /\ call.core.react_count = EdgeCount(call.core.reactions)

\* C24: a reactions-by-id map with an id that no transcription factor of
\* the core has fails with AttributeError when the mapping is consumed.
C24_UnknownIdIsAttributeError ==
    (call.fn = "ids_to_str" /\ call.stage = "consumed"
        /\ \E k \in DOMAIN call.reactions :
              k >= Cardinality(call.tfacts)
                 \/ \E v \in call.reactions[k] : v >= Cardinality(call.tfacts))
    => (~call.res.ok /\ call.res.error = "AttributeError")

\* C29: for every network, num_tfacts is the number of keys of the derived
\* map and every key and regulator has an id, so the dimension
\* 2 * num_tfacts + react_count of the starting problem is twice the number
\* of keys of the reaction-id map plus the number of True entries of the
\* generated mask.
C29_DimensionOfStart ==
    (call.fn = "CoreSystem" /\ call.stage = "ids") =>
       /\ num_tfacts(call.core) = Cardinality(DOMAIN call.core.reactions)
       /\ call.ids.ok
       /\ 2 * num_tfacts(call.core) + call.core.react_count
            = 2 * Cardinality(DOMAIN call.ids.map)
                + MaskSize(generate_reactions_vector(call.ids.map)[2])

InJob == call.fn = "peripherals_job"

\* C25: the gene_name of a PeripheralSolution is the one the class function
\* gave when the solution was constructed; patching the class function for a
\* later gene does not change it, and two solutions built under different
\* patches have different names.
C25_GeneNameFixed ==
    InJob =>
       /\ \A i \in 1..Len(call.sols) :
             gene_name(call.sols[i], call) = call.sols[i].born
       /\ \A i \in 1..Len(call.sols) : \A j \in 1..Len(call.sols) :
             call.sols[i].born # call.sols[j].born
                => gene_name(call.sols[i], call)
                      # gene_name(call.sols[j], call)

C25_Witness ==
    /\ InJob
    /\ Len(call.sols) = 2
    /\ call.gene # call.sols[1].born
    /\ gene_name(call.sols[1], call) # gene_name(call.sols[2], call)

\* C30: the read of reactions_ids on a PeripheralSolution returns the
\* regulator set stored under the solution's gene_name in its reaction map,
\* so the pruning step goes on whenever the mask still has an edge.
C30_ReactionsIdsReturned ==
    (InJob /\ call.read.called) =>
       /\ call.read.ok
       /\ call.read.value =
             call.best[Len(call.best)].reactions_ids[
                 gene_name(call.best[Len(call.best)], call)]

IterCalled == call.fn = "iter_function" /\ call.called

IterMaskSize == MaskSize(IterSolution(call).react_mask)

IterStops ==
    call.res.ok /\ ~call.res.do_iteration /\ call.res.problem = None

IterContinues ==
    /\ call.res.ok
    /\ call.res.do_iteration
    /\ call.res.problem.ok
    /\ EdgeCount(call.res.reactions) = EdgeCount(call.R) - 1
    /\ \A g \in Nodes : call.res.reactions[g] \subseteq call.R[g]

LayoutOf(s) ==
    /\ MaskSize(s.react_mask) = EdgeCount(s.reactions_ids)
    /\ EdgeCount(s.reactions_ids) = Len(s.x) - 2 * NumNodes

\* C27: at every point of solve, the current problem and every solution
\* collected so far have as many True entries in the mask as edges in the
\* reaction map, and a decision vector of 2 * |nodes| slots more; the reduced
\* vector seeded into the next problem has the next problem's dimension.
C27_LayoutConsistent ==
    /\ \A i \in 1..Len(solutions) : LayoutOf(solutions[i])
    /\ \A i \in 1..Len(ranked) : LayoutOf(ranked[i])
    /\ solution # None => LayoutOf(solution)
    /\ prob # None =>
          /\ prob.ok
          /\ MaskSize(prob.vector_map_mask) = EdgeCount(reactions)
          /\ prob.dimension = 2 * NumNodes + EdgeCount(reactions)
          /\ Len(prob.lb) = prob.dimension
          /\ Len(prob.ub) = prob.dimension
          /\ \A k \in 1..Len(prob.best_x) :
                Len(prob.best_x[k]) = prob.dimension

\* the third round: two solutions of different sizes collected, the class
\* level state overwritten twice, a seeded vector in the current problem
C27_Witness ==
    /\ round = 3
    /\ Len(solutions) = 2
    /\ Len(solutions[1].x) # Len(solutions[2].x)
    /\ prob # None
    /\ Len(prob.best_x) = 1
    /\ statics.dim = prob.dimension
    /\ statics.dim < Len(solutions[1].x)
    /\ statics.dim < Len(solutions[2].x)

\* what a problem built by a factory created with cfg is configured with
ConfiguredAs(p, cfg) ==
    /\ p.data = cfg.data
    /\ p.y0 = cfg.y0
    /\ (p.kind = "pert") <=> cfg.pert
    /\ cfg.pert => (p.pert_data = cfg.data /\ p.pert_function = cfg.data
                       /\ p.factor = cfg.factor)

\* C28: a problem built by a factory F is configured with the cost data,
\* initial state and perturbation settings given when F was created, also
\* when another factory was created in between; two calls of F.build with
\* the same arguments give problems of the same configuration.
C28_FactoryKeepsItsConfiguration ==
    (call.fn = "factories" /\ call.stage = "rebuilt") =>
       /\ ConfiguredAs(call.first, call.F)
       /\ ConfiguredAs(call.second, call.F)
       /\ call.second = call.first

====
